---- MODULE Spec2Model ----
(***************************************************************************)
(* Model of package autoflags (autoflags.go): Define / DefineFlagSet walk  *)
(* the fields of a struct and register every flag-tagged field with a      *)
(* flag.FlagSet; a later FlagSet.Parse writes the parsed values into the    *)
(* bound fields.                                                            *)
(*                                                                         *)
(* Text (tags, flag names, usage, command line arguments) is modelled as   *)
(* sequences of one-character strings, so that splitting and parsing are   *)
(* computed and not assumed.  Every Go value is the record [n, s]: n holds *)
(* a number (int, int64, uint, uint64; bool as 0/1; float64 in hundredths; *)
(* time.Duration in seconds, to stay inside TLC's integers), s holds text  *)
(* (string and flag.Value fields).                                         *)
(***************************************************************************)
EXTENDS Integers, Sequences, FiniteSets, TLC

\* Bounds of the model.
MaxFields == 2
MaxTagLen == 2
MaxCalls == 2

VARIABLES
    fields,      \* the struct type: sequence of [tag, typ, exported]
    conf,        \* the caller's struct value: one value per field
    formal,      \* flag.CommandLine's registered flags, in registration order
    err,         \* what the last Define / DefineFlagSet returned
    parseErr,    \* what the last FlagSet.Parse returned
    visited,     \* indices the field loop of the last bind call reached
    lastOp,      \* the last call made
    lastFs,      \* the FlagSet argument of the last bind call
    lastArg,     \* the config argument of the last bind call
    lastArgs,    \* the argument list of the last Parse call
    preFormal,   \* formal before the last bind call
    preConf,     \* conf before the last bind call
    parseFrom,   \* conf before the last Parse call
    nBind,       \* number of bind calls made
    nParse       \* number of Parse calls made

vars == <<fields, conf, formal, err, parseErr, visited, lastOp, lastFs, lastArg,
          lastArgs, preFormal, preConf, parseFrom, nBind, nParse>>

NIL == "nil"
CommandLine == "flag.CommandLine"

----------------------------------------------------------------------------
\* Values and text.

IntV(n) == [n |-> n, s |-> <<>>]
StrV(s) == [n |-> 0, s |-> s]

BuiltinKinds == {"int", "int64", "uint", "uint64", "float64", "bool", "string", "Duration"}
Kinds == BuiltinKinds \cup {"Value", "unsafe.Pointer"}

ZeroValue(k) == IntV(0)

\* The values TestDefineParse uses (Int64 and Duration scaled to fit).
RefValue(k) ==
    CASE k = "string" -> StrV(<<"w", "h", "a", "l", "e", "s">>)
      [] k = "int" -> IntV(42)
      [] k = "int64" -> IntV(1073741824)
      [] k = "uint" -> IntV(7)
      [] k = "uint64" -> IntV(24)
      [] k = "float64" -> IntV(155)
      [] k = "bool" -> IntV(1)
      [] k = "Duration" -> IntV(900)
      [] k = "Value" -> StrV(<<"v">>)
      [] OTHER -> IntV(0)

Digits == {"0", "1", "2", "3", "4", "5", "6", "7", "8", "9"}
DigitVal(c) ==
    CASE c = "0" -> 0 [] c = "1" -> 1 [] c = "2" -> 2 [] c = "3" -> 3 [] c = "4" -> 4
      [] c = "5" -> 5 [] c = "6" -> 6 [] c = "7" -> 7 [] c = "8" -> 8 [] c = "9" -> 9

IsDigits(t) == Len(t) > 0 /\ \A j \in 1..Len(t) : t[j] \in Digits

RECURSIVE DecimalValue(_)
DecimalValue(t) ==
    IF Len(t) = 0 THEN 0
    ELSE 10 * DecimalValue(SubSeq(t, 1, Len(t) - 1)) + DigitVal(t[Len(t)])

Ok(v) == [ok |-> TRUE, v |-> v]
Bad == [ok |-> FALSE, v |-> IntV(0)]

\* strconv.ParseUint as uintValue.Set / uint64Value.Set use it (decimal texts).
ParseUint(t) == IF IsDigits(t) THEN Ok(IntV(DecimalValue(t))) ELSE Bad

\* strconv.ParseInt as intValue.Set / int64Value.Set use it (decimal texts).
ParseInt(t) ==
    IF Len(t) > 0 /\ t[1] \in {"-", "+"}
    THEN LET r == Tail(t)
         IN IF IsDigits(r)
            THEN Ok(IntV(IF t[1] = "-" THEN 0 - DecimalValue(r) ELSE DecimalValue(r)))
            ELSE Bad
    ELSE ParseUint(t)

\* strconv.ParseBool.
ParseBool(t) ==
    IF t \in {<<"1">>, <<"t">>, <<"T">>, <<"t", "r", "u", "e">>,
              <<"T", "R", "U", "E">>, <<"T", "r", "u", "e">>} THEN Ok(IntV(1))
    ELSE IF t \in {<<"0">>, <<"f">>, <<"F">>, <<"f", "a", "l", "s", "e">>,
                   <<"F", "A", "L", "S", "E">>, <<"F", "a", "l", "s", "e">>} THEN Ok(IntV(0))
    ELSE Bad

\* Index of the first occurrence of character c in t, 0 when there is none.
IndexOf(t, c) ==
    IF \E j \in 1..Len(t) : t[j] = c
    THEN CHOOSE j \in 1..Len(t) : t[j] = c /\ \A h \in 1..(j - 1) : t[h] # c
    ELSE 0

\* strconv.ParseFloat on plain decimal texts with at most two fractional
\* digits; the value is kept in hundredths.
ParseFloat(t) ==
    LET p == IndexOf(t, ".")
        whole == IF p = 0 THEN t ELSE SubSeq(t, 1, p - 1)
        frac == IF p = 0 THEN <<>> ELSE SubSeq(t, p + 1, Len(t))
    IN IF IsDigits(whole) /\ Len(frac) <= 2 /\ (Len(frac) = 0 \/ IsDigits(frac))
       THEN Ok(IntV(100 * DecimalValue(whole)
                    + (IF Len(frac) = 1 THEN 10 * DecimalValue(frac) ELSE DecimalValue(frac))))
       ELSE Bad

\* time.ParseDuration on "<digits><unit>" with unit s, m or h, and on "0";
\* the value is kept in seconds.
ParseDuration(t) ==
    IF t = <<"0">> THEN Ok(IntV(0))
    ELSE IF Len(t) < 2 THEN Bad
    ELSE LET num == SubSeq(t, 1, Len(t) - 1)
             unit == t[Len(t)]
         IN IF IsDigits(num) /\ unit \in {"s", "m", "h"}
            THEN Ok(IntV(DecimalValue(num)
                         * (CASE unit = "s" -> 1 [] unit = "m" -> 60 [] unit = "h" -> 3600)))
            ELSE Bad

\* flag.Value.Set of the flag registered for a field of kind k.
SetValue(k, t) ==
    CASE k \in {"int", "int64"} -> ParseInt(t)
      [] k \in {"uint", "uint64"} -> ParseUint(t)
      [] k = "float64" -> ParseFloat(t)
      [] k = "bool" -> ParseBool(t)
      [] k = "Duration" -> ParseDuration(t)
      [] OTHER -> Ok(StrV(t))

----------------------------------------------------------------------------
\* The config arguments a caller can pass: reflect.Kind of the value and,
\* for a pointer, the kind of what reflect.Indirect yields ("Invalid" for a
\* nil pointer).

NoElem == "-"
NonPointerArgs ==
    {[kind |-> "Int", elem |-> NoElem], [kind |-> "Struct", elem |-> NoElem],
     [kind |-> "Invalid", elem |-> NoElem]}
BadPointerArgs ==
    {[kind |-> "Ptr", elem |-> "Invalid"], [kind |-> "Ptr", elem |-> "Int"],
     [kind |-> "Ptr", elem |-> "Ptr"], [kind |-> "Ptr", elem |-> "Slice"],
     [kind |-> "Ptr", elem |-> "Map"]}
StructPointer == [kind |-> "Ptr", elem |-> "Struct"]
ConfigArgs == NonPointerArgs \cup BadPointerArgs \cup {StructPointer}

----------------------------------------------------------------------------
\* DefineFlagSet.

\* Faulty variants of the definitions below.  Each property is also checked
\* against one of them, to see that it tells the code from the fault.

\* Variant: fs is never tested.
ValidateNoFlagSetCheck(fs, arg) ==
    IF arg.kind # "Ptr" THEN "ErrPointerWanted"
    ELSE IF arg.elem = "Invalid" \/ arg.elem # "Struct" THEN "ErrInvalidArgument"
    ELSE "nil"

\* Variant: st.Kind() is never tested.
ValidateNoKindCheck(fs, arg) ==
    IF fs = NIL THEN "ErrInvalidFlagSet"
    ELSE IF arg.elem = "Invalid" \/ arg.elem # "Struct" THEN "ErrInvalidArgument"
    ELSE "nil"

\* Variant: only a nil pointer is refused, not a pointer to a non-struct.
ValidateNoStructCheck(fs, arg) ==
    IF fs = NIL THEN "ErrInvalidFlagSet"
    ELSE IF arg.kind # "Ptr" THEN "ErrPointerWanted"
    ELSE IF arg.elem = "Invalid" THEN "ErrInvalidArgument"
    ELSE "nil"

\* Variant: the config argument is tested before fs.
ValidateConfigFirst(fs, arg) ==
    IF arg.kind # "Ptr" THEN "ErrPointerWanted"
    ELSE IF arg.elem = "Invalid" \/ arg.elem # "Struct" THEN "ErrInvalidArgument"
    ELSE IF fs = NIL THEN "ErrInvalidFlagSet"
    ELSE "nil"

\* The checks before the field loop, in the order the code makes them.
Validate(fs, arg) ==
    IF fs = NIL THEN "ErrInvalidFlagSet"
    ELSE IF arg.kind # "Ptr" THEN "ErrPointerWanted"
    ELSE IF arg.elem = "Invalid" \/ arg.elem # "Struct" THEN "ErrInvalidArgument"
    ELSE "nil"

\* val.CanAddr(): st is reflect.Indirect of a pointer, so its fields are addressable.
CanAddr(arg) == arg.kind = "Ptr"

\* Variant: an empty tag is registered like any other.
TagNeverSkipped(tag) == FALSE

\* len(tag) == 0: the field is not exposed.
TagSkipped(tag) == Len(tag) = 0

\* Variant: the tag is cut at its last comma.
SplitAtLastComma(tag) ==
    IF \E j \in 1..Len(tag) : tag[j] = ","
    THEN LET p == CHOOSE j \in 1..Len(tag) : tag[j] = "," /\ \A h \in (j + 1)..Len(tag) : tag[h] # ","
         IN <<SubSeq(tag, 1, p - 1), SubSeq(tag, p + 1, Len(tag))>>
    ELSE <<tag>>

\* strings.SplitN(tag, ",", 2).
SplitN(tag) ==
    LET p == IndexOf(tag, ",")
    IN IF p = 0 THEN <<tag>> ELSE <<SubSeq(tag, 1, p - 1), SubSeq(tag, p + 1, Len(tag))>>

\* The switch on len(flagData).
FlagName(tag) == SplitN(tag)[1]
FlagUsage(tag) == IF Len(SplitN(tag)) = 2 THEN SplitN(tag)[2] ELSE <<>>

\* addr.Type().Implements(flagValueType)
Implements(typ) == typ = "Value"

\* Variant: the flag is bound to a copy of the field, not to the field.
BindCopy(i) == 0

\* addr := val.Addr(): the flag is bound to the field's own storage.
BindAddr(i) == i

\* Variant: the default is the type's zero value.
SeedZero(k, d) == ZeroValue(k)

\* The default handed to fs.XxxVar: d, the field's current value.
SeedDefault(k, d) == d

\* Variant: the first untagged field ends the loop.
ReturnAfterSkip(i) == Len(fields) + 1

\* continue: the loop goes on with the next field.
Continue(i) == i + 1

FlagNames(fl) == {fl[j].name : j \in 1..Len(fl)}

\* (*FlagSet).Var: a name already registered panics; otherwise the flag is
\* added.  st is the state of the call: [formal, conf, visited, panicked].
FlagSetVar(st, flag) ==
    IF flag.name \in FlagNames(st.formal)
    THEN [st EXCEPT !.panicked = TRUE]
    ELSE [st EXCEPT !.formal = Append(@, flag)]

\* (*FlagSet).XxxVar(p, name, value, usage): *p = value, then Var.
FlagSetXxxVar(st, i, flag) ==
    FlagSetVar([st EXCEPT !.conf = IF flag.target \in DOMAIN @
                                   THEN [@ EXCEPT ![flag.target] = flag.def] ELSE @],
               flag)

\* The body of the field loop for field i; the result is the state of the
\* call after it.  A tagged unexported field panics in either branch:
\* addr.Interface() and val.Interface() both refuse a value obtained from an
\* unexported field.  Fields of interface type are not modelled.
FieldBody(arg, i, st) ==
    LET f == fields[i]
        flag == [name |-> FlagName(f.tag), usage |-> FlagUsage(f.tag),
                 target |-> BindAddr(i), kind |-> f.typ,
                 def |-> SeedDefault(f.typ, st.conf[i])]
    IN IF ~CanAddr(arg) THEN st
       ELSE IF TagSkipped(f.tag) THEN st
       ELSE IF ~f.exported THEN [st EXCEPT !.panicked = TRUE]
       ELSE IF Implements(f.typ) THEN FlagSetVar(st, [flag EXCEPT !.def = st.conf[i]])
       ELSE IF f.typ \in BuiltinKinds THEN FlagSetXxxVar(st, i, flag)
       ELSE st

RECURSIVE FieldLoop(_, _, _)
FieldLoop(arg, i, st) ==
    IF i > Len(fields) \/ st.panicked THEN st
    ELSE LET st1 == FieldBody(arg, i, [st EXCEPT !.visited = Append(@, i)])
         IN FieldLoop(arg, IF TagSkipped(fields[i].tag) THEN Continue(i) ELSE i + 1, st1)

CallState(e) == [formal |-> formal, conf |-> conf, visited |-> <<>>, panicked |-> FALSE, err |-> e]

\* Variant: a nil fs is reported, but only after the flags were registered
\* with flag.CommandLine.
DefineFlagSetDefaulting(fs, arg) ==
    LET e == Validate(fs, arg)
    IN IF e = "nil" \/ (e = "ErrInvalidFlagSet" /\ Validate(CommandLine, arg) = "nil")
       THEN [FieldLoop(arg, 1, CallState(e)) EXCEPT !.err = e]
       ELSE CallState(e)

\* What a call DefineFlagSet(fs, arg) does: the state of the call when it
\* returns err, or panics.
DefineFlagSetCall(fs, arg) ==
    LET e == Validate(fs, arg)
    IN IF e # "nil" THEN CallState(e)
       ELSE LET r == FieldLoop(arg, 1, CallState(e))
            IN [r EXCEPT !.err = IF r.panicked THEN "panic" ELSE "nil"]

----------------------------------------------------------------------------
\* (*FlagSet).Parse.

Lookup(fl, name) == fl[CHOOSE j \in 1..Len(fl) : fl[j].name = name]

\* flag.Value.Set through the flag's binding: the parsed value is written
\* into the storage the flag was bound to.
FlagSet(cf, flag, t) ==
    LET r == SetValue(flag.kind, t)
    IN IF ~r.ok THEN [ok |-> FALSE, conf |-> cf]
       ELSE [ok |-> TRUE,
             conf |-> IF flag.target \in DOMAIN cf THEN [cf EXCEPT ![flag.target] = r.v] ELSE cf]

Step(status, cf, args) == [status |-> status, conf |-> cf, args |-> args]

\* (*FlagSet).parseOne: status "more" after a flag was set, "done" when the
\* flags are over, else the error.
ParseOne(fl, cf, args) ==
    IF Len(args) = 0 THEN Step("done", cf, args)
    ELSE LET s == args[1]
         IN IF Len(s) < 2 \/ s[1] # "-" THEN Step("done", cf, args)
            ELSE LET numMinuses == IF s[2] = "-" THEN 2 ELSE 1
                     name0 == SubSeq(s, numMinuses + 1, Len(s))
                     rest == Tail(args)
                 IN IF numMinuses = 2 /\ Len(s) = 2 THEN Step("done", cf, rest)
                    ELSE IF Len(name0) = 0 \/ name0[1] \in {"-", "="}
                    THEN Step("bad flag syntax", cf, args)
                    ELSE LET eq == IndexOf(name0, "=")
                             name == IF eq = 0 THEN name0 ELSE SubSeq(name0, 1, eq - 1)
                             value == IF eq = 0 THEN <<>> ELSE SubSeq(name0, eq + 1, Len(name0))
                         IN IF name \notin FlagNames(fl)
                            THEN IF name \in {<<"h">>, <<"h", "e", "l", "p">>}
                                 THEN Step("ErrHelp", cf, rest)
                                 ELSE Step("flag provided but not defined", cf, rest)
                            ELSE LET flag == Lookup(fl, name)
                                 IN IF flag.kind = "bool"
                                    THEN LET r == FlagSet(cf, flag, IF eq = 0 THEN <<"t", "r", "u", "e">> ELSE value)
                                         IN Step(IF r.ok THEN "more" ELSE "invalid value", r.conf, rest)
                                    ELSE IF eq = 0 /\ Len(rest) = 0
                                    THEN Step("flag needs an argument", cf, rest)
                                    ELSE LET r == FlagSet(cf, flag, IF eq = 0 THEN rest[1] ELSE value)
                                         IN Step(IF r.ok THEN "more" ELSE "invalid value", r.conf,
                                                 IF eq = 0 THEN Tail(rest) ELSE rest)

\* The loop of (*FlagSet).Parse with ContinueOnError: parseOne until the
\* flags are over or one fails; the result is [err, conf].
RECURSIVE ParseLoop(_, _, _)
ParseLoop(fl, cf, args) ==
    LET r == ParseOne(fl, cf, args)
    IN IF r.status = "more" THEN ParseLoop(fl, r.conf, r.args)
       ELSE [err |-> IF r.status = "done" THEN "nil" ELSE r.status, conf |-> r.conf]

----------------------------------------------------------------------------
\* The argument lists tried.

Dash(name) == <<"-">> \o name

\* Names a command line can spell: those of the struct's tags, and one
\* that no tag has.
SpellNames == {FlagName(fields[i].tag) : i \in {j \in 1..Len(fields) : Len(fields[j].tag) > 0}}
              \cup {<<"z">>}

ProbeTexts == {<<"1">>, <<"x">>}

\* One flag on the command line: -name, -name=text, or -name text.
Settings(name) ==
    {<<Dash(name)>>}
    \cup {<<Dash(name) \o <<"=">> \o t>> : t \in ProbeTexts}
    \cup {<<Dash(name), t>> : t \in ProbeTexts}

\* Two ways to set a flag of kind k to a value it accepts.
KindSettings(name, k) ==
    CASE k = "string" -> {<<Dash(name), <<"w", "h", "a", "l", "e", "s">>>>, <<Dash(name), <<"x">>>>}
      [] k = "int" -> {<<Dash(name), <<"4", "2">>>>, <<Dash(name), <<"-", "7">>>>}
      [] k = "int64" -> {<<Dash(name), <<"1", "0", "7", "3", "7", "4", "1", "8", "2", "4">>>>,
                         <<Dash(name), <<"5">>>>}
      [] k = "uint" -> {<<Dash(name), <<"7">>>>, <<Dash(name), <<"0">>>>}
      [] k = "uint64" -> {<<Dash(name), <<"2", "4">>>>, <<Dash(name), <<"3">>>>}
      [] k = "float64" -> {<<Dash(name), <<"1", ".", "5", "5">>>>, <<Dash(name), <<"2">>>>}
      [] k = "bool" -> {<<Dash(name)>>, <<Dash(name) \o <<"=", "f", "a", "l", "s", "e">>>>}
      [] k = "Duration" -> {<<Dash(name), <<"1", "5", "m">>>>, <<Dash(name), <<"2", "s">>>>}
      [] OTHER -> {<<Dash(name), <<"v">>>>, <<Dash(name), <<"x">>>>}

\* The argument lists that set every flag of fl from index j on, in order.
RECURSIVE FullLists(_, _)
FullLists(fl, j) ==
    IF j > Len(fl) THEN {<<>>}
    ELSE {a \o b : a \in KindSettings(fl[j].name, fl[j].kind), b \in FullLists(fl, j + 1)}

ArgLists == {<<>>} \cup UNION {Settings(n) : n \in SpellNames} \cup FullLists(formal, 1)

----------------------------------------------------------------------------
\* The calls.

\* The program is the one the package documentation shows: it binds, stops
\* when the bind call fails, and parses afterwards.
Bind(op, fs, arg) ==
    /\ err \in {"none", "nil"}
    /\ nBind + nParse < MaxCalls
    /\ LET r == DefineFlagSetCall(fs, arg)
       IN /\ formal' = r.formal
          /\ conf' = r.conf
          /\ err' = r.err
          /\ visited' = r.visited
    /\ lastOp' = op
    /\ lastFs' = fs
    /\ lastArg' = arg
    /\ preFormal' = formal
    /\ preConf' = conf
    /\ nBind' = nBind + 1
    /\ UNCHANGED <<fields, parseErr, lastArgs, parseFrom, nParse>>

\* Define(config): DefineFlagSet on flag.CommandLine.
Define(arg) == Bind("Define", CommandLine, arg)

\* DefineFlagSet(fs, config).
DefineFlagSet(fs, arg) == Bind("DefineFlagSet", fs, arg)

\* flag.CommandLine.Parse(args), as the tests call it.
Parse(args) ==
    /\ err = "nil"
    /\ nBind + nParse < MaxCalls
    /\ LET r == ParseLoop(formal, conf, args)
       IN /\ conf' = r.conf
          /\ parseErr' = r.err
    /\ lastOp' = "Parse"
    /\ lastArgs' = args
    /\ parseFrom' = conf
    /\ nParse' = nParse + 1
    /\ UNCHANGED <<fields, formal, err, visited, lastFs, lastArg, preFormal, preConf, nBind>>

Next ==
    \/ \E arg \in ConfigArgs : Define(arg)
    \/ \E fs \in {NIL, CommandLine}, arg \in ConfigArgs : DefineFlagSet(fs, arg)
    \/ \E args \in ArgLists : Parse(args)

\* The struct types tried: up to MaxFields fields, each with a tag of up to
\* MaxTagLen characters.
TagChars == {"a", ","}
Tags == UNION {[1..n -> TagChars] : n \in 0..MaxTagLen}
FieldDecls == [tag : Tags, typ : Kinds, exported : BOOLEAN]

InitRest ==
    /\ formal = <<>>
    /\ err = "none"
    /\ parseErr = "none"
    /\ visited = <<>>
    /\ lastOp = "none"
    /\ lastFs = NIL
    /\ lastArg = StructPointer
    /\ lastArgs = <<>>
    /\ preFormal = <<>>
    /\ preConf = conf
    /\ parseFrom = conf
    /\ nBind = 0
    /\ nParse = 0

\* Any struct type within the bounds, its fields all zero or all populated.
Init ==
    /\ \E n \in 0..MaxFields : fields \in [1..n -> FieldDecls]
    /\ \E populated \in BOOLEAN :
          conf = [i \in 1..Len(fields) |->
                    IF populated THEN RefValue(fields[i].typ) ELSE ZeroValue(fields[i].typ)]
    /\ InitRest

Spec == Init /\ [][Next]_vars

\* type configBig of the tests.
configBig ==
    <<[tag |-> <<"s", "t", "r", "i", "n", "g", ",", "s", "t", "r", "i", "n", "g", " ", "f", "l", "a", "g", " ", "e", "x", "a", "m", "p", "l", "e">>,
        typ |-> "string", exported |-> TRUE],
       [tag |-> <<"i", "n", "t", ",", "i", "n", "t", " ", "f", "l", "a", "g", " ", "e", "x", "a", "m", "p", "l", "e">>,
        typ |-> "int", exported |-> TRUE],
       [tag |-> <<"i", "n", "t", "6", "4", ",", "i", "n", "t", "6", "4", " ", "f", "l", "a", "g", " ", "e", "x", "a", "m", "p", "l", "e">>,
        typ |-> "int64", exported |-> TRUE],
       [tag |-> <<"u", "i", "n", "t", ",", "u", "i", "n", "t", " ", "f", "l", "a", "g", " ", "e", "x", "a", "m", "p", "l", "e">>,
        typ |-> "uint", exported |-> TRUE],
       [tag |-> <<"u", "i", "n", "t", "6", "4">>,
        typ |-> "uint64", exported |-> TRUE],
       [tag |-> <<"f", "l", "o", "a", "t", "6", "4">>,
        typ |-> "float64", exported |-> TRUE],
       [tag |-> <<"b", "o", "o", "l">>,
        typ |-> "bool", exported |-> TRUE],
       [tag |-> <<"d", "u", "r", "a", "t", "i", "o", "n">>,
        typ |-> "Duration", exported |-> TRUE],
       [tag |-> <<"n", "i", "l">>,
        typ |-> "unsafe.Pointer", exported |-> TRUE],
       [tag |-> <<>>,
        typ |-> "bool", exported |-> TRUE],
       [tag |-> <<>>,
        typ |-> "int", exported |-> TRUE]>>

\* configBig, zero as in TestDefineParse or populated.
InitBig ==
    /\ fields = configBig
    /\ \E populated \in BOOLEAN :
          conf = [i \in 1..Len(fields) |->
                    IF populated THEN RefValue(fields[i].typ) ELSE ZeroValue(fields[i].typ)]
    /\ InitRest

SpecBig == InitBig /\ [][Next]_vars

----------------------------------------------------------------------------
\* Properties.

BindCalls == {"Define", "DefineFlagSet"}
ValidationErrors == {"ErrPointerWanted", "ErrInvalidArgument", "ErrInvalidFlagSet"}
NotDefined == "flag provided but not defined"

\* Fields that get a flag: a non-empty tag and a type the switch or
\* flag.Value covers.
Eligible == {i \in 1..Len(fields) :
               Len(fields[i].tag) > 0 /\ fields[i].typ \in BuiltinKinds \cup {"Value"}}
\* The flags the last bind call added.
NewFlags == SubSeq(formal, Len(preFormal) + 1, Len(formal))
ValidationPassed == lastOp \in BindCalls /\ lastFs # NIL /\ lastArg = StructPointer

\* C1: Define of a value that is not a pointer (untyped nil included)
\* returns ErrPointerWanted and registers no flag.
C1_NonPointerRejected ==
    (lastOp = "Define" /\ lastArg \in NonPointerArgs)
        => (err = "ErrPointerWanted" /\ formal = preFormal)

C1_Witness ==
    /\ lastOp = "Define"
    /\ lastArg = [kind |-> "Invalid", elem |-> NoElem]
    /\ err = "ErrPointerWanted"

\* C2: Define of a nil pointer, or of a pointer to something that is not a
\* struct, returns ErrInvalidArgument.
C2_BadPointerRejected ==
    (lastOp = "Define" /\ lastArg.kind = "Ptr" /\ lastArg.elem # "Struct")
        => err = "ErrInvalidArgument"

C2_Witness ==
    /\ lastOp = "Define"
    /\ lastArg = [kind |-> "Ptr", elem |-> "Invalid"]
    /\ err = "ErrInvalidArgument"
    /\ Len(fields) > 0

\* C3: DefineFlagSet with a nil FlagSet returns ErrInvalidFlagSet, also
\* for a valid pointer to a struct.
C3_NilFlagSetRejected ==
    (lastOp = "DefineFlagSet" /\ lastFs = NIL) => err = "ErrInvalidFlagSet"

C3_Witness ==
    /\ lastOp = "DefineFlagSet"
    /\ lastFs = NIL
    /\ lastArg = StructPointer
    /\ Eligible # {}
    /\ err = "ErrInvalidFlagSet"

\* The command line has a token naming flag name: -name or -name=...
Names(args, name) ==
    \E p \in 1..Len(args) :
        \/ args[p] = Dash(name)
        \/ /\ Len(args[p]) > Len(name) + 1
           /\ SubSeq(args[p], 1, Len(name) + 2) = Dash(name) \o <<"=">>
\* The command line sets flag name to text: -name text.
SetsTo(args, name, text) ==
    \E p \in 1..(Len(args) - 1) : args[p] = Dash(name) /\ args[p + 1] = text

\* What each text on the command line stands for, per kind of field.
Expected(k) ==
    CASE k = "string" -> {<<<<"w", "h", "a", "l", "e", "s">>, StrV(<<"w", "h", "a", "l", "e", "s">>)>>,
                          <<<<"x">>, StrV(<<"x">>)>>}
      [] k = "int" -> {<<<<"4", "2">>, IntV(42)>>, <<<<"-", "7">>, IntV(0 - 7)>>}
      [] k = "int64" -> {<<<<"1", "0", "7", "3", "7", "4", "1", "8", "2", "4">>, IntV(1073741824)>>,
                         <<<<"5">>, IntV(5)>>}
      [] k = "uint" -> {<<<<"7">>, IntV(7)>>, <<<<"0">>, IntV(0)>>}
      [] k = "uint64" -> {<<<<"2", "4">>, IntV(24)>>, <<<<"3">>, IntV(3)>>}
      [] k = "float64" -> {<<<<"1", ".", "5", "5">>, IntV(155)>>, <<<<"2">>, IntV(200)>>}
      [] k = "Duration" -> {<<<<"1", "5", "m">>, IntV(900)>>, <<<<"2", "s">>, IntV(2)>>}
      [] OTHER -> {}

\* The tag's name: the text before its first comma.
TagName(tag) ==
    IF \E p \in 1..Len(tag) : tag[p] = ","
    THEN SubSeq(tag, 1, (CHOOSE p \in 1..Len(tag) :
                            tag[p] = "," /\ \A h \in 1..(p - 1) : tag[h] # ",") - 1)
    ELSE tag

SetsEveryFlag ==
    /\ lastOp = "Parse"
    /\ err = "nil"
    /\ parseErr = "nil"
    /\ \A i \in Eligible : Len(TagName(fields[i].tag)) > 0 /\ Names(lastArgs, TagName(fields[i].tag))
    /\ \A i \in Eligible : \A j \in Eligible : i # j => fields[i].typ # fields[j].typ

\* C4: with one tagged field of each built-in kind, after a successful bind
\* and a successful parse of a list that sets every flag, every bound field
\* holds the value its own flag's text stands for and every other field is
\* unchanged.
C4_RoundTrip ==
    SetsEveryFlag =>
        \A i \in 1..Len(fields) :
            LET k == fields[i].typ
                name == TagName(fields[i].tag)
            IN IF i \in Eligible
               THEN /\ \A e \in Expected(k) : SetsTo(lastArgs, name, e[1]) => conf[i] = e[2]
                    /\ k = "bool" =>
                          /\ (\E p \in 1..Len(lastArgs) : lastArgs[p] = Dash(name)) => conf[i] = IntV(1)
                          /\ (\E p \in 1..Len(lastArgs) :
                                 lastArgs[p] = Dash(name) \o <<"=", "f", "a", "l", "s", "e">>)
                                => conf[i] = IntV(0)
               ELSE conf[i] = parseFrom[i]

C4_Witness ==
    /\ SetsEveryFlag
    /\ {fields[i].typ : i \in Eligible} = BuiltinKinds
    /\ conf[1] = StrV(<<"x">>)
    /\ conf[2] = IntV(0 - 7)
    /\ conf[6] = IntV(155)
    /\ conf[7] = IntV(0)
    /\ conf[8] = IntV(900)
    /\ parseFrom[7] = IntV(1)
    /\ conf[10] = IntV(1)

\* C5: a successful bind changes no field and seeds every new flag's default
\* with the field's value, and parsing an empty argument list after it
\* leaves every field as it was before the bind call.
C5_EmptyParseKeepsStruct ==
    /\ (lastOp \in BindCalls /\ err = "nil") =>
          /\ conf = preConf
          /\ \A j \in 1..Len(NewFlags) :
                NewFlags[j].target \in 1..Len(fields)
                /\ NewFlags[j].def = preConf[NewFlags[j].target]
    /\ (lastOp = "Parse" /\ lastArgs = <<>>) => (conf = parseFrom /\ parseErr = "nil")
    /\ (lastOp = "Parse" /\ lastArgs = <<>> /\ nBind = 1 /\ nParse = 1) => conf = preConf

C5_Witness ==
    /\ lastOp = "Parse"
    /\ err = "nil"
    /\ lastArgs = <<>>
    /\ Len(fields) = 2
    /\ Eligible = {1, 2}
    /\ \A i \in 1..2 : conf[i] # ZeroValue(fields[i].typ)
    /\ nBind = 1
    /\ nParse = 1
    /\ conf = preConf

\* After a successful bind the new flags are one per eligible field, and no
\* other field has one.
OnePerEligible ==
    (lastOp \in BindCalls \cup {"Parse"} /\ err = "nil") =>
        /\ Len(NewFlags) = Cardinality(Eligible)
        /\ \A i \in Eligible :
              Cardinality({j \in 1..Len(NewFlags) : NewFlags[j].target = i}) = 1
        /\ \A j \in 1..Len(formal) : formal[j].target \in Eligible
        /\ SubSeq(formal, 1, Len(preFormal)) = preFormal

\* Fields with a tag that names a flag, and still no flag of their own.
SkippedNamed == {i \in 1..Len(fields) :
                   i \notin Eligible /\ Len(fields[i].tag) > 0 /\ Len(TagName(fields[i].tag)) > 0}
\* The last parse was of one flag: -name, -name=text or -name text.
ParsedOne(name) ==
    /\ lastOp = "Parse"
    /\ err = "nil"
    /\ Len(lastArgs) \in {1, 2}
    /\ Names(lastArgs, name)

\* C6 as claimed: one registration per eligible field and none for the
\* others, so that a parse naming a skipped field's flag fails as unknown.
C6_AsClaimed ==
    /\ OnePerEligible
    /\ \A i \in SkippedNamed :
          ParsedOne(TagName(fields[i].tag)) => parseErr = NotDefined

\* C6: one registration per eligible field and none for the others; a
\* parse naming a skipped field's flag fails as unknown unless another
\* field registered a flag of that name.
C6_OnePerEligibleField ==
    /\ OnePerEligible
    /\ \A i \in SkippedNamed :
          (ParsedOne(TagName(fields[i].tag))
           /\ \A j \in 1..Len(formal) : formal[j].name # TagName(fields[i].tag))
             => parseErr = NotDefined

C6_Witness ==
    /\ Len(fields) = 2
    /\ Eligible = {2}
    /\ SkippedNamed = {1}
    /\ Len(formal) = 1
    /\ formal[1].target = 2
    /\ ParsedOne(TagName(fields[1].tag))
    /\ parseErr = NotDefined

\* C7: every flag is registered under the tag's text before the first comma
\* with the text after the first comma as usage (later commas stay in the
\* usage, no comma means no usage), also when that name is empty.
C7_NameAndUsage ==
    (lastOp \in BindCalls \cup {"Parse"} /\ err = "nil") =>
        /\ \A i \in Eligible : \E j \in 1..Len(formal) : formal[j].target = i
        /\ \A j \in 1..Len(formal) :
              formal[j].target \in 1..Len(fields) /\
              LET tag == fields[formal[j].target].tag
              IN IF \A p \in 1..Len(tag) : tag[p] # ","
                 THEN formal[j].name = tag /\ formal[j].usage = <<>>
                 ELSE \E p \in 1..Len(tag) :
                         /\ tag[p] = ","
                         /\ \A h \in 1..(p - 1) : tag[h] # ","
                         /\ formal[j].name = SubSeq(tag, 1, p - 1)
                         /\ formal[j].usage = SubSeq(tag, p + 1, Len(tag))

C7_Witness ==
    /\ lastOp \in BindCalls
    /\ err = "nil"
    /\ \E j \in 1..Len(formal) :
          /\ fields[formal[j].target].tag = <<",", ",">>
          /\ formal[j].name = <<>>
          /\ formal[j].usage = <<",">>

\* C8 as claimed: the config argument is checked before the FlagSet.
C8_AsClaimed ==
    (lastOp = "DefineFlagSet" /\ lastFs = NIL) =>
        /\ lastArg.kind # "Ptr" => err = "ErrPointerWanted"
        /\ (lastArg.kind = "Ptr" /\ lastArg.elem = "Invalid") => err = "ErrInvalidArgument"

\* C8: the checks are made in the order FlagSet non-nil, argument a
\* pointer, pointer non-nil and to a struct; the first failing one decides
\* the error.
C8_ValidationOrder ==
    lastOp \in BindCalls =>
        /\ lastFs = NIL => err = "ErrInvalidFlagSet"
        /\ (lastFs # NIL /\ lastArg.kind # "Ptr") => err = "ErrPointerWanted"
        /\ (lastFs # NIL /\ lastArg.kind = "Ptr" /\ lastArg.elem # "Struct")
              => err = "ErrInvalidArgument"
        /\ (lastFs # NIL /\ lastArg = StructPointer) => err \notin ValidationErrors

C8_Witness ==
    /\ lastOp = "DefineFlagSet"
    /\ lastFs = NIL
    /\ lastArg \in NonPointerArgs
    /\ err = "ErrInvalidFlagSet"

\* C9: a bind call that returns a validation error has registered no flag
\* and changed no field.
C9_NoPartialRegistration ==
    (lastOp \in BindCalls /\ err \in ValidationErrors) =>
        (formal = preFormal /\ conf = preConf /\ visited = <<>>)

C9_Witness ==
    /\ lastOp \in BindCalls
    /\ err \in ValidationErrors
    /\ nBind = 2
    /\ formal # <<>>
    /\ formal = preFormal

\* The loop visited fields 1..k in order.
VisitedInOrder == \A p \in 1..Len(visited) : visited[p] = p
\* Field i is one whose registration panics: tagged and unexported, or
\* eligible with a name that an earlier flag already has.
Panics(i) ==
    /\ Len(fields[i].tag) > 0
    /\ \/ ~fields[i].exported
       \/ /\ i \in Eligible
          /\ \/ \E j \in 1..Len(preFormal) : preFormal[j].name = TagName(fields[i].tag)
             \/ \E h \in Eligible : h < i /\ TagName(fields[h].tag) = TagName(fields[i].tag)

====
